---- MODULE Spec2Model ----
(***************************************************************************)
(* Model of the rental dashboard server (server entry file, 185 lines):    *)
(* the SQLite store "rental.db" with its five tables, the seed block run   *)
(* at process start, and the seven /api routes.                            *)
(***************************************************************************)
EXTENDS Integers, Sequences, FiniteSets, TLC

VARIABLES db, fkEnforced, pc, now, resp, hist

vars == <<db, fkEnforced, pc, now, resp, hist>>

-----------------------------------------------------------------------------
(* Bounds of the model *)

MaxProps == 4
MaxMaint == 2
MaxClock == 1
MaxRows == 2
MaxTotal == 40

-----------------------------------------------------------------------------
(* SQL values *)

\* NULL of an INTEGER column (row ids start at 1).
NULL == 0

\* NULL of a TEXT column.
NullText == "<null>"

\* Binary collation of the TEXT dates the store can hold, ascending.
DateOrder == <<"2024-02-01", "2024-02-05">>

DateRank(d) == CHOOSE i \in 1..Len(DateOrder) : DateOrder[i] = d

Range(s) == {s[i] : i \in 1..Len(s)}

Max(S) == CHOOSE x \in S : \A y \in S : y <= x

\* INTEGER PRIMARY KEY AUTOINCREMENT: one more than the largest id so far.
NextId(table) == 1 + Max({0} \cup {table[i].id : i \in 1..Len(table)})

Ids(table) == {table[i].id : i \in 1..Len(table)}

EmptyStore ==
  [properties |-> <<>>, tenants |-> <<>>, leases |-> <<>>,
   payments |-> <<>>, maintenance |-> <<>>]

\* FOREIGN KEY (col) REFERENCES parent(id): checked only when the engine
\* enforces foreign keys; a NULL child key always passes.
FkOk(fk, key, parent) == (~fk) \/ key = NULL \/ key \in Ids(parent)

-----------------------------------------------------------------------------
(* INSERT statements: each returns [ok, db, id]; a constraint violation     *)
(* throws (ok = FALSE) and leaves the store as it was.                      *)

Thrown(d) == [ok |-> FALSE, db |-> d, id |-> NULL]

\* The name and address parameters bound in the wrong order.
InsertPropertySwapped(d, name, address, type, rent_amount, status) ==
  LET id == NextId(d.properties)
      row == [id |-> id, name |-> address, address |-> name, type |-> type,
              rent_amount |-> rent_amount, status |-> status]
  IN  IF name = NullText \/ address = NullText \/ type = NullText
      THEN Thrown(d)
      ELSE [ok |-> TRUE, id |-> id,
            db |-> [d EXCEPT !.properties = Append(@, row)]]

InsertProperty(d, name, address, type, rent_amount, status) ==
  LET id == NextId(d.properties)
      row == [id |-> id, name |-> name, address |-> address, type |-> type,
              rent_amount |-> rent_amount, status |-> status]
  IN  IF name = NullText \/ address = NullText \/ type = NullText
      THEN Thrown(d)
      ELSE [ok |-> TRUE, id |-> id,
            db |-> [d EXCEPT !.properties = Append(@, row)]]

\* The email column declared without UNIQUE.
InsertTenantAnyEmail(fk, d, first_name, last_name, email, phone, property_id) ==
  LET id == NextId(d.tenants)
      row == [id |-> id, first_name |-> first_name, last_name |-> last_name,
              email |-> email, phone |-> phone, property_id |-> property_id]
  IN  IF \/ first_name = NullText \/ last_name = NullText \/ email = NullText
         \/ ~FkOk(fk, property_id, d.properties)
      THEN Thrown(d)
      ELSE [ok |-> TRUE, id |-> id,
            db |-> [d EXCEPT !.tenants = Append(@, row)]]

InsertTenant(fk, d, first_name, last_name, email, phone, property_id) ==
  LET id == NextId(d.tenants)
      row == [id |-> id, first_name |-> first_name, last_name |-> last_name,
              email |-> email, phone |-> phone, property_id |-> property_id]
  IN  IF \/ first_name = NullText \/ last_name = NullText \/ email = NullText
         \/ \E i \in 1..Len(d.tenants) : d.tenants[i].email = email
         \/ ~FkOk(fk, property_id, d.properties)
      THEN Thrown(d)
      ELSE [ok |-> TRUE, id |-> id,
            db |-> [d EXCEPT !.tenants = Append(@, row)]]

InsertLease(fk, d, property_id, tenant_id, start_date, end_date, monthly_rent) ==
  LET id == NextId(d.leases)
      row == [id |-> id, property_id |-> property_id, tenant_id |-> tenant_id,
              start_date |-> start_date, end_date |-> end_date,
              monthly_rent |-> monthly_rent, status |-> "Active"]
  IN  IF \/ property_id = NULL \/ tenant_id = NULL
         \/ ~FkOk(fk, property_id, d.properties)
         \/ ~FkOk(fk, tenant_id, d.tenants)
      THEN Thrown(d)
      ELSE [ok |-> TRUE, id |-> id,
            db |-> [d EXCEPT !.leases = Append(@, row)]]

InsertPayment(fk, d, lease_id, amount, payment_date) ==
  LET id == NextId(d.payments)
      row == [id |-> id, lease_id |-> lease_id, amount |-> amount,
              payment_date |-> payment_date, status |-> "Paid"]
  IN  IF lease_id = NULL \/ ~FkOk(fk, lease_id, d.leases)
      THEN Thrown(d)
      ELSE [ok |-> TRUE, id |-> id,
            db |-> [d EXCEPT !.payments = Append(@, row)]]

\* The priority argument bound to the status column as well.
InsertMaintenanceStatusBound(fk, d, property_id, description, priority, clock) ==
  LET id == NextId(d.maintenance)
      row == [id |-> id, property_id |-> property_id,
              description |-> description, priority |-> priority,
              status |-> priority, created_at |-> clock]
  IN  IF \/ property_id = NULL \/ description = NullText
         \/ ~FkOk(fk, property_id, d.properties)
      THEN Thrown(d)
      ELSE [ok |-> TRUE, id |-> id,
            db |-> [d EXCEPT !.maintenance = Append(@, row)]]

\* The insert made INSERT OR REPLACE on the whole table.
InsertMaintenanceReplacing(fk, d, property_id, description, priority, clock) ==
  LET id == NextId(d.maintenance)
      row == [id |-> id, property_id |-> property_id,
              description |-> description, priority |-> priority,
              status |-> "Open", created_at |-> clock]
  IN  IF \/ property_id = NULL \/ description = NullText
         \/ ~FkOk(fk, property_id, d.properties)
      THEN Thrown(d)
      ELSE [ok |-> TRUE, id |-> id, db |-> [d EXCEPT !.maintenance = <<row>>]]

InsertMaintenance(fk, d, property_id, description, priority, clock) ==
  LET id == NextId(d.maintenance)
      row == [id |-> id, property_id |-> property_id,
              description |-> description, priority |-> priority,
              status |-> "Open", created_at |-> clock]
  IN  IF \/ property_id = NULL \/ description = NullText
         \/ ~FkOk(fk, property_id, d.properties)
      THEN Thrown(d)
      ELSE [ok |-> TRUE, id |-> id,
            db |-> [d EXCEPT !.maintenance = Append(@, row)]]

-----------------------------------------------------------------------------
(* Seed block *)

SeedStatements == <<
  [table |-> "properties", name |-> "Sunset Apartments - Unit 101",
   address |-> "123 Solar Way, Phoenix, AZ", type |-> "Apartment",
   rent_amount |-> 1200, status |-> "Occupied"],
  [table |-> "properties", name |-> "Sunset Apartments - Unit 102",
   address |-> "123 Solar Way, Phoenix, AZ", type |-> "Apartment",
   rent_amount |-> 1250, status |-> "Available"],
  [table |-> "properties", name |-> "Oak Ridge House",
   address |-> "456 Forest Dr, Portland, OR", type |-> "Single Family",
   rent_amount |-> 2500, status |-> "Occupied"],
  [table |-> "tenants", first_name |-> "John", last_name |-> "Doe",
   email |-> "john@example.com", phone |-> "555-0101", property_id |-> 1],
  [table |-> "tenants", first_name |-> "Jane", last_name |-> "Smith",
   email |-> "jane@example.com", phone |-> "555-0202", property_id |-> 3],
  [table |-> "leases", property_id |-> 1, tenant_id |-> 1,
   start_date |-> "2024-01-01", end_date |-> "2024-12-31", monthly_rent |-> 1200],
  [table |-> "leases", property_id |-> 3, tenant_id |-> 2,
   start_date |-> "2024-02-01", end_date |-> "2025-01-31", monthly_rent |-> 2500],
  [table |-> "payments", lease_id |-> 1, amount |-> 1200,
   payment_date |-> "2024-02-01"],
  [table |-> "payments", lease_id |-> 3, amount |-> 2500,
   payment_date |-> "2024-02-05"] >>

RunStatement(fk, d, s) ==
  CASE s.table = "properties" ->
         InsertProperty(d, s.name, s.address, s.type, s.rent_amount, s.status)
    [] s.table = "tenants" ->
         InsertTenant(fk, d, s.first_name, s.last_name, s.email, s.phone,
                      s.property_id)
    [] s.table = "leases" ->
         InsertLease(fk, d, s.property_id, s.tenant_id, s.start_date,
                     s.end_date, s.monthly_rent)
    [] s.table = "payments" ->
         InsertPayment(fk, d, s.lease_id, s.amount, s.payment_date)

\* The seed statements run one after the other, outside any transaction:
\* the first that throws ends the process, the rows before it stay.
RECURSIVE RunSeed(_, _, _)
RunSeed(fk, d, i) ==
  IF i > Len(SeedStatements) THEN [ok |-> TRUE, db |-> d]
  ELSE LET r == RunStatement(fk, d, SeedStatements[i])
       IN  IF r.ok THEN RunSeed(fk, r.db, i + 1)
           ELSE [ok |-> FALSE, db |-> r.db]

\* Seed data if empty.
SeedIfEmpty(fk, d) ==
  IF Len(d.properties) = 0 THEN RunSeed(fk, d, 1) ELSE [ok |-> TRUE, db |-> d]

-----------------------------------------------------------------------------------------------------------------------------------------------------
(* JavaScript Number arithmetic of the occupancy rate: IEEE-754 binary64,   *)
(* round to nearest, ties to even.  A positive double is held as three      *)
(* 18-bit limbs [v1, v2, v3] and a scale k: its value is                    *)
(*     (v1 * 2^36 + v2 * 2^18 + v3) * 2^(-53 - k),                          *)
(* 54 bits wide, so a 53-bit significand leaves the lowest bit 0.           *)

Limb == 2^18

\* The least k with o * 2^k >= t, and r = o * 2^k (r / t lies in [1, 2)).
RECURSIVE Normalise(_, _, _)
Normalise(o, t, k) ==
  IF o >= t THEN [r |-> o, k |-> k] ELSE Normalise(2 * o, t, k + 1)

\* Carry the limbs s1, s2, s3 (s2, s3 may have reached Limb) into range.
Carried(s1, s2, s3, k) ==
  LET c2 == s2 + (s3 \div Limb)
  IN  [v1 |-> s1 + (c2 \div Limb), v2 |-> c2 % Limb, v3 |-> s3 % Limb, k |-> k]

\* occupied / total for integers 0 < o <= t: 54 quotient bits by long
\* division, then the 54th bit rounded away (ties to even; the remainder
\* of the division is the sticky tail).
DoubleDiv(o, t) ==
  LET nz == Normalise(o, t, 0)
      a1 == nz.r * 2^17
      a2 == (a1 % t) * Limb
      a3 == (a2 % t) * Limb
      d3 == a3 \div t
      guard == d3 % 2
      odd == (d3 \div 2) % 2
      up == guard = 1 /\ ((a3 % t) # 0 \/ odd = 1)
  IN  Carried(a1 \div t, a2 \div t, d3 - guard + (IF up THEN 2 ELSE 0), nz.k)

\* x * 100: the exact product, then rounded to 53 significant bits.  The
\* product is 60 or 61 bits wide, so its 7 or 8 lowest bits are rounded away.
DoubleTimes100(x) ==
  LET p3 == x.v3 * 100
      p2 == x.v2 * 100 + (p3 \div Limb)
      p1 == x.v1 * 100 + (p2 \div Limb)
      l3 == p3 % Limb
      G == IF p1 >= 2^24 THEN 2^8 ELSE 2^7
      low == l3 % G
      odd == (l3 \div G) % 2
      up == low > G \div 2 \/ (low = G \div 2 /\ odd = 1)
  IN  Carried(p1, p2 % Limb, l3 - low + (IF up THEN G ELSE 0), x.k)

\* Math.round: the nearest integer, a tie going up, that is the integer part
\* plus the first fraction bit.  Both lie in the top limb: the binary point
\* is 17 + k bits into it.
MathRound(x) ==
  (x.v1 \div 2^(17 + x.k)) + ((x.v1 \div 2^(16 + x.k)) % 2)

\* Math.round((occupied / total) * 100) || 0 : 0 / 0 is NaN, Math.round
\* keeps NaN, and NaN || 0 is 0; 0 / total is 0 and 0 || 0 is 0.
OccupancyRate(occupied, total) ==
  IF total = 0 \/ occupied = 0 THEN 0
  ELSE MathRound(DoubleTimes100(DoubleDiv(occupied, total)))

-----
(* Queries *)

\* SELECT COUNT(*) FROM table WHERE status = value
CountStatus(table, value) ==
  Cardinality({i \in 1..Len(table) : table[i].status = value})

\* The amount of the first row only.
SumAmountFirstRow(table) == IF table = <<>> THEN 0 ELSE Head(table).amount

\* SUM(amount): NULL over no rows.
RECURSIVE SumAmount(_)
SumAmount(table) ==
  IF table = <<>> THEN 0 ELSE Head(table).amount + SumAmount(Tail(table))

SqlSum(table) ==
  IF table = <<>> THEN [isNull |-> TRUE, total |-> 0]
  ELSE [isNull |-> FALSE, total |-> SumAmount(table)]

\* totalRevenue.total || 0
OrZero(v) == IF v.isNull \/ v.total = 0 THEN 0 ELSE v.total

GetStats(d) ==
  [totalProperties |-> Len(d.properties),
   occupancyRate |-> OccupancyRate(CountStatus(d.properties, "Occupied"),
                                   Len(d.properties)),
   totalRevenue |-> OrZero(SqlSum(d.payments)),
   openMaintenance |-> CountStatus(d.maintenance, "Open")]

ListProperties(d) == d.properties

\* Rows of table whose id equals key, in table order (NULL matches nothing).
Matching(table, key) ==
  SelectSeq(table, LAMBDA r : key # NULL /\ r.id = key)

RECURSIVE Flatten(_)
Flatten(ss) == IF ss = <<>> THEN <<>> ELSE Head(ss) \o Flatten(Tail(ss))

\* The join made INNER: a tenant without a matching property gives no row.
TenantRowsInner(d, t) ==
  LET ps == Matching(d.properties, t.property_id)
  IN  [i \in 1..Len(ps) |-> [tenant |-> t, property_name |-> ps[i].name]]

TenantRows(d, t) ==
  LET ps == Matching(d.properties, t.property_id)
  IN  IF ps = <<>> THEN <<[tenant |-> t, property_name |-> NullText]>>
      ELSE [i \in 1..Len(ps) |-> [tenant |-> t, property_name |-> ps[i].name]]

\* tenants t LEFT JOIN properties p ON t.property_id = p.id
ListTenants(d) ==
  Flatten([i \in 1..Len(d.tenants) |-> TenantRows(d, d.tenants[i])])

\* The rows in ascending key order.
SortedAsc(rows, keys) ==
  LET n == Len(rows)
      perms == {p \in [1..n -> 1..n] :
                  /\ \A i, j \in 1..n : i # j => p[i] # p[j]
                  /\ \A i, j \in 1..n : i < j => keys[p[i]] <= keys[p[j]]}
  IN  {[i \in 1..n |-> rows[p[i]]] : p \in perms}

\* The orders ORDER BY key DESC may return rows in, keys[i] being the sort
\* key of rows[i]: every arrangement with non-increasing keys (rows with
\* equal keys come in any order).
SortedDesc(rows, keys) ==
  LET n == Len(rows)
      perms == {p \in [1..n -> 1..n] :
                  /\ \A i, j \in 1..n : i # j => p[i] # p[j]
                  /\ \A i, j \in 1..n : i < j => keys[p[i]] >= keys[p[j]]}
  IN  {[i \in 1..n |-> rows[p[i]]] : p \in perms}

\* The joins to tenants and properties made LEFT joins.
PaymentRowsLeftJoined(d, p) ==
  LET ls == Matching(d.leases, p.lease_id)
      LeaseRows(l) ==
        LET ts == Matching(d.tenants, l.tenant_id)
            props == Matching(d.properties, l.property_id)
        IN  IF ts = <<>> \/ props = <<>>
            THEN <<[payment |-> p, first_name |-> NullText,
                    last_name |-> NullText, property_name |-> NullText]>>
            ELSE <<[payment |-> p, first_name |-> ts[1].first_name,
                    last_name |-> ts[1].last_name,
                    property_name |-> props[1].name]>>
  IN  Flatten([k \in 1..Len(ls) |-> LeaseRows(ls[k])])

PaymentRows(d, p) ==
  LET ls == Matching(d.leases, p.lease_id)
      LeaseRows(l) ==
        LET ts == Matching(d.tenants, l.tenant_id)
            props == Matching(d.properties, l.property_id)
        IN  Flatten([i \in 1..Len(ts) |->
                       [j \in 1..Len(props) |->
                          [payment |-> p, first_name |-> ts[i].first_name,
                           last_name |-> ts[i].last_name,
                           property_name |-> props[j].name]]])
  IN  Flatten([k \in 1..Len(ls) |-> LeaseRows(ls[k])])

PaymentJoin(d) ==
  Flatten([i \in 1..Len(d.payments) |-> PaymentRows(d, d.payments[i])])

PaymentDateKeys(rows) ==
  [i \in 1..Len(rows) |-> DateRank(rows[i].payment.payment_date)]

\* payments JOIN leases JOIN tenants JOIN properties ORDER BY payment_date DESC
ListPayments(d) ==
  LET rows == PaymentJoin(d) IN SortedDesc(rows, PaymentDateKeys(rows))

\* The join made on the maintenance row's own id.
MaintenanceRowsOnId(d, m) ==
  LET ps == Matching(d.properties, m.id)
  IN  [i \in 1..Len(ps) |-> [issue |-> m, property_name |-> ps[i].name]]

MaintenanceRows(d, m) ==
  LET ps == Matching(d.properties, m.property_id)
  IN  [i \in 1..Len(ps) |-> [issue |-> m, property_name |-> ps[i].name]]

MaintenanceJoin(d) ==
  Flatten([i \in 1..Len(d.maintenance) |-> MaintenanceRows(d, d.maintenance[i])])

CreatedAtKeys(rows) == [i \in 1..Len(rows) |-> rows[i].issue.created_at]

\* maintenance JOIN properties ORDER BY created_at DESC
ListMaintenance(d) ==
  LET rows == MaintenanceJoin(d) IN SortedDesc(rows, CreatedAtKeys(rows))

-----------------------------------------------------------------------------
(* Requests *)

\* Bodies of POST /api/properties: two well-formed ones and one whose name
\* is null.
PropertyBodies ==
  {[name |-> "Maple Court", address |-> "1 Maple St", type |-> "Condo",
    rent_amount |-> 900],
   [name |-> "Pine Loft", address |-> "2 Pine Ave", type |-> "Studio",
    rent_amount |-> 1500],
   [name |-> NullText, address |-> "3 Elm Rd", type |-> "Condo",
    rent_amount |-> 700]}

\* Bodies of POST /api/maintenance: the property is a seeded one (1), the
\* first one CreateProperty adds (4), or one that never exists.
MaintenanceBodies ==
  {[property_id |-> 1, description |-> "Leaky faucet", priority |-> "High"],
   [property_id |-> 4, description |-> "Broken window", priority |-> "Low"],
   [property_id |-> MaxProps + 1, description |-> "Leaky faucet",
    priority |-> "Low"]}

NoResponse == [op |-> "none", status |-> 0, body |-> <<>>]

Ok(op, body) == [op |-> op, status |-> 200, body |-> body]

\* An exception thrown in a route reaches express's default error handler.
Failed(op) == [op |-> op, status |-> 500, body |-> <<>>]

-----------------------------------------------------------------------------
(* Process start and stop *)

\* Module body of the server: open rental.db, create the tables if absent,
\* seed if empty, then startServer().  A throw in the seed block ends the
\* process before it listens.
Startup ==
  /\ pc = "down"
  /\ LET s == SeedIfEmpty(fkEnforced, db)
     IN  /\ db' = s.db
         /\ pc' = IF s.ok THEN "serving" ELSE "down"
  /\ UNCHANGED <<fkEnforced, now, resp, hist>>

\* The process ends; rental.db stays on disk.
Exit ==
  /\ pc = "serving"
  /\ pc' = "down"
  /\ UNCHANGED <<db, fkEnforced, now, resp, hist>>

\* One second of CURRENT_TIMESTAMP passes.
Tick ==
  /\ now < MaxClock
  /\ now' = now + 1
  /\ UNCHANGED <<db, fkEnforced, pc, resp, hist>>

-----------------------------------------------------------------------------
(* API routes *)

\* The handler made to yield between its second and third query, so that a
\* POST /api/properties can run in between.
ApiGetStatsYielding ==
  /\ pc = "serving"
  /\ \/ /\ resp' = Ok("GetStats", GetStats(db))
        /\ db' = db
     \/ /\ Len(db.properties) < MaxProps
        /\ \E body \in PropertyBodies :
             LET r == InsertProperty(db, body.name, body.address, body.type,
                                     body.rent_amount, "Available")
             IN  /\ db' = r.db
                 /\ resp' = Ok("GetStats",
                              [GetStats(r.db) EXCEPT
                                 !.totalProperties = Len(db.properties),
                                 !.occupancyRate = GetStats(db).occupancyRate])
  /\ UNCHANGED <<fkEnforced, pc, now, hist>>

ApiGetStats ==
  /\ pc = "serving"
  /\ resp' = Ok("GetStats", GetStats(db))
  /\ UNCHANGED <<db, fkEnforced, pc, now, hist>>

ApiListProperties ==
  /\ pc = "serving"
  /\ resp' = Ok("ListProperties", ListProperties(db))
  /\ UNCHANGED <<db, fkEnforced, pc, now, hist>>

\* POST /api/properties with the given body.
PostProperty(body) ==
  /\ pc = "serving"
  /\ Len(db.properties) < MaxProps
  /\ LET r == InsertProperty(db, body.name, body.address, body.type,
                             body.rent_amount, "Available")
     IN  /\ db' = r.db
         /\ resp' = IF r.ok THEN Ok("CreateProperty", [id |-> r.id])
                    ELSE Failed("CreateProperty")
  /\ UNCHANGED <<fkEnforced, pc, now, hist>>

ApiCreateProperty == \E body \in PropertyBodies : PostProperty(body)

ApiListTenants ==
  /\ pc = "serving"
  /\ resp' = Ok("ListTenants", ListTenants(db))
  /\ UNCHANGED <<db, fkEnforced, pc, now, hist>>

ApiListPayments ==
  /\ pc = "serving"
  /\ \E rows \in ListPayments(db) : resp' = Ok("ListPayments", rows)
  /\ UNCHANGED <<db, fkEnforced, pc, now, hist>>

ApiListMaintenance ==
  /\ pc = "serving"
  /\ \E rows \in ListMaintenance(db) : resp' = Ok("ListMaintenance", rows)
  /\ UNCHANGED <<db, fkEnforced, pc, now, hist>>

\* hist keeps each answered POST /api/maintenance: the body sent and the id
\* returned.
ApiCreateMaintenance ==
  /\ pc = "serving"
  /\ Len(db.maintenance) < MaxMaint
  /\ \E body \in MaintenanceBodies :
       LET r == InsertMaintenance(fkEnforced, db, body.property_id,
                                  body.description, body.priority, now)
       IN  /\ db' = r.db
           /\ resp' = IF r.ok THEN Ok("CreateMaintenance", [id |-> r.id])
                      ELSE Failed("CreateMaintenance")
           /\ hist' = IF r.ok THEN Append(hist, [request |-> body, id |-> r.id])
                      ELSE hist
  /\ UNCHANGED <<fkEnforced, pc, now>>

Read ==
  \/ ApiGetStats
  \/ ApiListProperties
  \/ ApiListTenants
  \/ ApiListPayments
  \/ ApiListMaintenance

Api == Read \/ ApiCreateProperty \/ ApiCreateMaintenance

-----------------------------------------------------------------------------
(* The server started on a fresh rental.db *)

Init ==
  /\ db = EmptyStore
  /\ fkEnforced \in BOOLEAN
  /\ pc = "down"
  /\ now = 0
  /\ resp = NoResponse
  /\ hist = <<>>

Next ==
  \/ Startup
  \/ Exit
  \/ Tick
  \/ ApiGetStats
  \/ ApiListProperties
  \/ ApiCreateProperty
  \/ ApiListTenants
  \/ ApiListPayments
  \/ ApiListMaintenance
  \/ ApiCreateMaintenance

Spec == Init /\ [][Next]_vars

-----------------------------------------------------------------------------
(* The queries on any rental.db: the tables hold whatever rows the schema   *)
(* admits (ids are row positions), dangling references included.            *)

NameAt(i) == <<"Maple Court", "Pine Loft", "Birch Row">>[((i - 1) % 3) + 1]

PropertyRow(i, status) ==
  [id |-> i, name |-> NameAt(i), address |-> "1 Maple St", type |-> "Condo",
   rent_amount |-> 900, status |-> status]

\* The property tables of up to n rows.
PropertyTables(n) ==
  UNION {{[i \in 1..k |-> PropertyRow(i, st[i])] :
            st \in [1..k -> {"Available", "Occupied"}]} : k \in 0..n}

\* Up to n properties, none occupied.
AvailableTables(n) ==
  {[i \in 1..k |-> PropertyRow(i, "Available")] : k \in 0..n}

\* total properties, the first occupied of them occupied, total up to n.
RateTables(n) ==
  UNION {{[i \in 1..total |->
             PropertyRow(i, IF i <= occupied THEN "Occupied" ELSE "Available")] :
            occupied \in 0..total} : total \in 0..n}

\* The files a run of the seed block on a fresh rental.db leaves behind.
SeededFiles == {SeedIfEmpty(fk, EmptyStore).db : fk \in BOOLEAN}

TenantRow(i, property_id) ==
  [id |-> i, first_name |-> <<"John", "Jane", "Ann">>[((i - 1) % 3) + 1],
   last_name |-> <<"Doe", "Smith", "Lee">>[((i - 1) % 3) + 1],
   email |-> <<"a@example.com", "b@example.com", "c@example.com",
               "d@example.com">>[i],
   phone |-> NullText, property_id |-> property_id]

\* Up to n tenants without a property.
UnassignedTenantTables(n) ==
  {[i \in 1..k |-> TenantRow(i, NULL)] : k \in 0..n}

\* The tenant tables of up to n rows: each tenant has no property, property
\* 1, or a property that does not exist.
TenantTables(n) ==
  UNION {{[i \in 1..k |-> TenantRow(i, ref[i])] :
            ref \in [1..k -> {NULL, 1, n + 1}]} : k \in 0..n}

LeaseRow(i, property_id, tenant_id) ==
  [id |-> i, property_id |-> property_id, tenant_id |-> tenant_id,
   start_date |-> "2024-01-01", end_date |-> "2024-12-31",
   monthly_rent |-> 1200, status |-> "Active"]

LeaseTables ==
  {<<>>} \cup {<<LeaseRow(1, p, t)>> : p \in {1, 2}, t \in {1, 2}}

PaymentRow(i, lease_id, amount, payment_date) ==
  [id |-> i, lease_id |-> lease_id, amount |-> amount,
   payment_date |-> payment_date, status |-> "Paid"]

\* The payment tables of up to n rows: each payment is on lease 1 or 2, of
\* 1200 on 2024-02-01 or of 2500 on 2024-02-05.
PaymentTables(n) ==
  UNION {{[i \in 1..k |-> PaymentRow(i, l[i], 1200 + 1300 * (v[i] - 1),
                                     DateOrder[v[i]])] :
            l \in [1..k -> {1, 2}], v \in [1..k -> {1, 2}]} : k \in 0..n}

\* The maintenance tables of up to n rows.
MaintenanceTables(n) ==
  UNION {{[i \in 1..k |->
             [id |-> i, property_id |-> ref[i], description |-> "Leaky faucet",
              priority |-> "High", status |-> st[i], created_at |-> at[i]]] :
            ref \in [1..k -> {1, n + 1}],
            st \in [1..k -> {"Open", "Resolved"}],
            at \in [1..k -> {0, 1}]} : k \in 0..n}

\* The stores of up to n rows a table, and those of up to m properties.
StoreFiles(n, m) ==
  {[EmptyStore EXCEPT !.properties = p, !.tenants = t] :
     p \in PropertyTables(n), t \in TenantTables(n)}
  \cup {[EmptyStore EXCEPT !.properties = p, !.tenants = t, !.leases = l,
                           !.payments = y] :
          p \in AvailableTables(n), t \in UnassignedTenantTables(n),
          l \in LeaseTables, y \in PaymentTables(n)}
  \cup {[EmptyStore EXCEPT !.properties = p, !.maintenance = i] :
          p \in AvailableTables(n), i \in MaintenanceTables(n)}
  \cup {[EmptyStore EXCEPT !.properties = p] : p \in RateTables(m)}
  \cup SeededFiles

InitStore ==
  /\ db \in StoreFiles(MaxRows, MaxTotal)
  /\ fkEnforced = FALSE
  /\ pc = "serving"
  /\ now = 0
  /\ resp = NoResponse
  /\ hist = <<>>

NextStore ==
  \/ ApiGetStats
  \/ ApiListProperties
  \/ ApiListTenants
  \/ ApiListPayments
  \/ ApiListMaintenance

SpecStore == InitStore /\ [][NextStore]_vars

-----------------------------------------------------------------------------
(* The tenant INSERT statement on any tenants table.  The server runs this  *)
(* statement in its module body only; here it runs with any arguments on a  *)
(* store of any tenants and properties.                                     *)

TenantEmails == {"a@example.com", "b@example.com", "new@example.com"}

TenantInsert(email, property_id) ==
  /\ pc = "down"
  /\ Len(db.tenants) <= MaxRows
  /\ LET r == InsertTenant(fkEnforced, db, "Ann", "Lee", email, "555-0303",
                           property_id)
     IN  /\ db' = r.db
         /\ resp' = IF r.ok THEN Ok("InsertTenant", [id |-> r.id])
                    ELSE Failed("InsertTenant")
  /\ UNCHANGED <<fkEnforced, pc, now, hist>>

InitTenants ==
  /\ db \in {[EmptyStore EXCEPT !.properties = p, !.tenants = t] :
              p \in AvailableTables(MaxRows), t \in TenantTables(MaxRows)}
  /\ fkEnforced \in BOOLEAN
  /\ pc = "down"
  /\ now = 0
  /\ resp = NoResponse
  /\ hist = <<>>

NextTenants ==
  \E email \in TenantEmails, property_id \in {NULL, 1} :
    TenantInsert(email, property_id)

SpecTenants == InitTenants /\ [][NextTenants]_vars

-----------------------------------------------------------------------------
(* Properties *)

\* No POST has added a row since the seed block ran.
NoWriteYet == Len(db.properties) <= 3 /\ db.maintenance = <<>>

\* C1: after the seed block has run on a fresh store and before any write,
\* GET /api/stats answers {3, 67, 3700, 0}.
C1_SeedStats ==
  (resp.op = "GetStats" /\ NoWriteYet) =>
    resp.body = [totalProperties |-> 3, occupancyRate |-> 67,
                 totalRevenue |-> 3700, openMaintenance |-> 0]

\* C2: on the seed data, before any write, GET /api/payments answers two
\* rows: Jane Smith / Oak Ridge House / 2500 of 2024-02-05, then John Doe /
\* Sunset Apartments - Unit 101 / 1200 of 2024-02-01.
C2_SeedPayments ==
  (resp.op = "ListPayments" /\ NoWriteYet) =>
    /\ Len(resp.body) = 2
    /\ resp.body[1].payment.payment_date = "2024-02-05"
    /\ resp.body[1].payment.amount = 2500
    /\ resp.body[1].first_name = "Jane" /\ resp.body[1].last_name = "Smith"
    /\ resp.body[1].property_name = "Oak Ridge House"
    /\ resp.body[2].payment.payment_date = "2024-02-01"
    /\ resp.body[2].payment.amount = 1200
    /\ resp.body[2].first_name = "John" /\ resp.body[2].last_name = "Doe"
    /\ resp.body[2].property_name = "Sunset Apartments - Unit 101"

\* The number of property rows named name.
Named(table, name) == Cardinality({i \in 1..Len(table) : table[i].name = name})

\* C3: over any startups and API calls the seed rows are inserted at most
\* once, and once the seed block has run the store holds 2 tenants, 2 leases
\* and 2 payments, and exactly 3 properties until a property is created.
C3_SeedOnce ==
  /\ \A i \in 1..3 :
       Named(db.properties, SeedStatements[i].name) <= 1
  /\ Len(db.tenants) <= 2 /\ Len(db.leases) <= 2 /\ Len(db.payments) <= 2
  /\ pc = "serving" =>
       /\ Len(db.tenants) = 2 /\ Len(db.leases) = 2 /\ Len(db.payments) = 2
       /\ Len(db.properties) >= 3
       /\ NoWriteYet => Len(db.properties) = 3

Refers(key, parent) == key = NULL \/ key \in Ids(parent)

\* C4: in every reachable state each non-null tenant.property_id,
\* lease.property_id, lease.tenant_id, payment.lease_id and
\* maintenance.property_id is the id of an existing row of its parent table.
C4_ReferentialIntegrity ==
  /\ \A i \in 1..Len(db.tenants) : Refers(db.tenants[i].property_id, db.properties)
  /\ \A i \in 1..Len(db.leases) :
       /\ Refers(db.leases[i].property_id, db.properties)
       /\ Refers(db.leases[i].tenant_id, db.tenants)
  /\ \A i \in 1..Len(db.payments) : Refers(db.payments[i].lease_id, db.leases)
  /\ \A i \in 1..Len(db.maintenance) :
       Refers(db.maintenance[i].property_id, db.properties)

\* round(100 * occupied / total), a half rounding up.
RoundedPercent(occupied, total) == (200 * occupied + total) \div (2 * total)

\* C5: GetStats.occupancyRate is round(100 * occupied / total) when there
\* are properties and 0 when there are none, always an integer in 0..100.
C5_OccupancyRate ==
  resp.op = "GetStats" =>
    LET total == Len(db.properties)
        occupied == Cardinality({i \in 1..total :
                                   db.properties[i].status = "Occupied"})
    IN  /\ resp.body.occupancyRate \in 0..100
        /\ resp.body.occupancyRate =
             IF total = 0 THEN 0 ELSE RoundedPercent(occupied, total)

\* The sum of the amounts of the rows at the positions in S.
RECURSIVE AmountOver(_, _)
AmountOver(table, S) ==
  IF S = {} THEN 0
  ELSE LET i == CHOOSE j \in S : TRUE
       IN  table[i].amount + AmountOver(table, S \ {i})

\* C6: GetStats.totalRevenue is the sum of the amounts of all payment rows,
\* and 0 when there is no payment row.
C6_TotalRevenue ==
  resp.op = "GetStats" =>
    /\ resp.body.totalRevenue = AmountOver(db.payments, 1..Len(db.payments))
    /\ db.payments = <<>> => resp.body.totalRevenue = 0

\* GetStats has answered on a store with two payments of different amounts.
C6_Witness ==
  /\ resp.op = "GetStats"
  /\ Len(db.payments) = 2
  /\ db.payments[1].amount # db.payments[2].amount
  /\ resp.body.totalRevenue = 3700

\* The position of the property row with this id.
PropertyAt(id) == CHOOSE i \in 1..Len(db.properties) : db.properties[i].id = id

\* C7: a CreateMaintenance call on an existing property returns the id of
\* the row it stored, and every later ListMaintenance holds a row with that
\* id, status "Open", the description and priority sent, and the name of
\* the property referenced.
C7_CreatedIsListed ==
  /\ LET lists == ListMaintenance(db) IN
     \A c \in Range(hist) :
       /\ \E i \in 1..Len(db.maintenance) :
            /\ db.maintenance[i].id = c.id
            /\ db.maintenance[i].property_id = c.request.property_id
       /\ c.request.property_id \in Ids(db.properties) =>
            \A rows \in lists :
              \E i \in 1..Len(rows) :
                /\ rows[i].issue.id = c.id
                /\ rows[i].issue.status = "Open"
                /\ rows[i].issue.description = c.request.description
                /\ rows[i].issue.priority = c.request.priority
                /\ rows[i].property_name =
                     db.properties[PropertyAt(c.request.property_id)].name
  /\ (resp.op = "CreateMaintenance" /\ resp.status = 200) =>
       /\ hist # <<>>
       /\ resp.body.id = hist[Len(hist)].id
       /\ resp.body.id = db.maintenance[Len(db.maintenance)].id

\* ListMaintenance has answered after two requests were created, the second
\* on the property CreateProperty added, and shows both.
C7_Witness ==
  /\ Len(hist) = 2
  /\ hist[2].request.property_id = 4
  /\ 4 \in Ids(db.properties)
  /\ resp.op = "ListMaintenance"
  /\ Len(resp.body) = 2

\* The position in rows of the maintenance request with this id, 0 if the
\* list does not hold it.
ListedAt(rows, id) ==
  IF \E i \in 1..Len(rows) : rows[i].issue.id = id
  THEN CHOOSE i \in 1..Len(rows) : rows[i].issue.id = id
  ELSE 0

\* The created_at stored for the maintenance request with this id.
CreatedAt(id) ==
  db.maintenance[CHOOSE i \in 1..Len(db.maintenance) :
                   db.maintenance[i].id = id].created_at

\* C8 as stated: of two requests created one call after the other, the
\* later one stands before the earlier one in every ListMaintenance result.
C8_LaterCallFirst ==
  \A rows \in ListMaintenance(db) :
    \A a, b \in 1..Len(hist) :
      (a < b /\ ListedAt(rows, hist[a].id) > 0 /\ ListedAt(rows, hist[b].id) > 0)
        => ListedAt(rows, hist[b].id) < ListedAt(rows, hist[a].id)

\* C8 as amended: every ListMaintenance result is in non-increasing
\* created_at order; a later call never gets an earlier created_at, and of
\* two requests created in different seconds the later one stands first.
C8_SortedByCreatedAt ==
  \A rows \in ListMaintenance(db) :
    /\ \A i, j \in 1..Len(rows) :
         i < j => rows[i].issue.created_at >= rows[j].issue.created_at
    /\ \A a, b \in 1..Len(hist) :
         a < b =>
           /\ CreatedAt(hist[a].id) <= CreatedAt(hist[b].id)
           /\ ( /\ CreatedAt(hist[a].id) < CreatedAt(hist[b].id)
                /\ ListedAt(rows, hist[a].id) > 0
                /\ ListedAt(rows, hist[b].id) > 0 )
                => ListedAt(rows, hist[b].id) < ListedAt(rows, hist[a].id)

\* ListMaintenance has answered with two requests created in different
\* seconds, the later one first.
C8_Witness ==
  /\ resp.op = "ListMaintenance"
  /\ Len(resp.body) = 2
  /\ Len(hist) = 2
  /\ resp.body[1].issue.id = hist[2].id
  /\ resp.body[2].issue.id = hist[1].id
  /\ resp.body[1].issue.created_at > resp.body[2].issue.created_at

\* C9: ListTenants holds each tenant row exactly once, with the name of the
\* property its property_id references, or null when it has no property_id
\* or references no property; on the seed data John Doe comes with
\* "Sunset Apartments - Unit 101" and Jane Smith with "Oak Ridge House".
C9_TenantsJoin ==
  resp.op = "ListTenants" =>
    /\ Len(resp.body) = Len(db.tenants)
    /\ \A i \in 1..Len(db.tenants) :
         Cardinality({j \in 1..Len(resp.body) :
                        resp.body[j].tenant = db.tenants[i]}) = 1
    /\ \A j \in 1..Len(resp.body) :
         LET ref == resp.body[j].tenant.property_id
         IN  resp.body[j].property_name =
               IF ref # NULL /\ ref \in Ids(db.properties)
               THEN db.properties[PropertyAt(ref)].name
               ELSE NullText
    /\ db \in SeededFiles =>
         /\ \E j \in 1..Len(resp.body) :
              /\ resp.body[j].tenant.first_name = "John"
              /\ resp.body[j].tenant.last_name = "Doe"
              /\ resp.body[j].property_name = "Sunset Apartments - Unit 101"
         /\ \E j \in 1..Len(resp.body) :
              /\ resp.body[j].tenant.first_name = "Jane"
              /\ resp.body[j].tenant.last_name = "Smith"
              /\ resp.body[j].property_name = "Oak Ridge House"

\* ListTenants has answered with one tenant whose property exists and one
\* whose property_id references no property.
C9_Witness ==
  /\ resp.op = "ListTenants"
  /\ \E j \in 1..Len(resp.body) : resp.body[j].property_name = "Maple Court"
  /\ \E j \in 1..Len(resp.body) :
       /\ resp.body[j].tenant.property_id # NULL
       /\ resp.body[j].property_name = NullText

IsPrefix(a, b) == Len(a) <= Len(b) /\ \A i \in 1..Len(a) : b[i] = a[i]

ReadOps ==
  {"GetStats", "ListProperties", "ListTenants", "ListPayments", "ListMaintenance"}

\* One step of the store seen from outside, the server serving before and
\* after it.
ApiFrame ==
  /\ (pc = "serving" /\ pc' = "serving") =>
       /\ IsPrefix(db.properties, db'.properties)
       /\ IsPrefix(db.maintenance, db'.maintenance)
       /\ db'.tenants = db.tenants
       /\ db'.leases = db.leases
       /\ db'.payments = db.payments
       /\ (resp'.op \in ReadOps \/ resp'.status # 200) => db' = db
       /\ db' # db =>
            \/ /\ resp'.op = "CreateProperty"
               /\ Len(db'.properties) = Len(db.properties) + 1
               /\ db'.properties[Len(db'.properties)].id = resp'.body.id
               /\ db'.maintenance = db.maintenance
            \/ /\ resp'.op = "CreateMaintenance"
               /\ Len(db'.maintenance) = Len(db.maintenance) + 1
               /\ db'.maintenance[Len(db'.maintenance)].id = resp'.body.id
               /\ db'.properties = db.properties
       /\ (resp' # resp /\ resp'.status = 200) =>
            /\ resp'.op = "CreateProperty" =>
                 Len(db'.properties) = Len(db.properties) + 1
            /\ resp'.op = "CreateMaintenance" =>
                 Len(db'.maintenance) = Len(db.maintenance) + 1
  /\ db.properties # <<>> =>
       /\ db'.tenants = db.tenants
       /\ db'.leases = db.leases
       /\ db'.payments = db.payments

\* C10: the store is append-only under the API: every call keeps every
\* existing row as it is, the five reads change nothing, CreateProperty
\* adds one row to properties and nothing else, CreateMaintenance one row
\* to maintenance and nothing else, and tenants, leases and payments never
\* change once the store is seeded.
C10_AppendOnly == [][ApiFrame]_vars

\* Both creates have added a row and a read has answered since.
C10_Witness ==
  /\ Len(db.properties) > 3
  /\ Len(db.maintenance) = 2
  /\ resp.op = "ListProperties"

-----------------------------------------------------------------------------
\* C11: no two tenant rows ever hold the same email, and an insert of a
\* tenant whose email an existing tenant already has throws a constraint
\* violation and leaves the tenants table and every other table as they were.
EmailsUnique(table) ==
  \A i, j \in 1..Len(table) : table[i].email = table[j].email => i = j

EmailTaken(email) == \E i \in 1..Len(db.tenants) : db.tenants[i].email = email

TenantFrame ==
  /\ EmailsUnique(db.tenants) => EmailsUnique(db'.tenants)
  /\ \A email \in TenantEmails, property_id \in {NULL, 1} :
       TenantInsert(email, property_id) /\ EmailTaken(email) =>
         /\ resp' = Failed("InsertTenant")
         /\ db' = db

C11_UniqueEmail == [][TenantFrame]_vars

\* An insert of a taken email has thrown on a table of two tenants: without
\* foreign keys and with every text given, only the email can make it throw.
C11_Witness ==
  /\ resp = Failed("InsertTenant")
  /\ Len(db.tenants) = 2
  /\ \A i \in 1..2 : db.tenants[i].property_id = NULL
  /\ Len(db.properties) = 1
  /\ ~fkEnforced

-----------------------------------------------------------------------------
\* C12: an answered CreateProperty has added exactly one property row, with
\* the submitted name, address, type and rent_amount and status "Available",
\* and returns that row's id, which no row of the table held before and which
\* is greater than every id a property was given before.
CreatePropertyFrame ==
  \A body \in PropertyBodies :
    PostProperty(body) /\ resp'.status = 200 =>
      LET id == resp'.body.id
      IN  /\ db'.properties =
               Append(db.properties,
                      [id |-> id, name |-> body.name, address |-> body.address,
                       type |-> body.type, rent_amount |-> body.rent_amount,
                       status |-> "Available"])
          /\ id \notin Ids(db.properties)
          /\ \A i \in 1..Len(db.properties) : id > db.properties[i].id
          /\ db'.tenants = db.tenants /\ db'.leases = db.leases
          /\ db'.payments = db.payments /\ db'.maintenance = db.maintenance

C12_CreateProperty == [][CreatePropertyFrame]_vars

\* CreateProperty has answered with the id of the row it added after the
\* three seed properties.
C12_Witness ==
  /\ resp = Ok("CreateProperty", [id |-> 4])
  /\ Len(db.properties) = 4
  /\ db.properties[4].name = "Pine Loft"
  /\ db.properties[4].status = "Available"

-----------------------------------------------------------------------------
\* C13: seeding is all-or-nothing: in every state, across any sequence of
\* startups, the store holds either none of the nine seed rows (3 properties,
\* 2 tenants, 2 leases, 2 payments) or all of them, never a strict non-empty
\* subset.
SeedRowsHeld(d) ==
  Cardinality({i \in 1..Len(d.properties) : i <= 3}) + Len(d.tenants)
    + Len(d.leases) + Len(d.payments)

C13_SeedAllOrNothing == SeedRowsHeld(db) \in {0, Len(SeedStatements)}

-----------------------------------------------------------------------------
\* C14: whatever requests come before and after it, a GetStats answer is read
\* from one store state: no write takes effect while it is computed, each of
\* its four values is the value of its query on that one state, and the
\* occupied count behind occupancyRate is at most the reported
\* totalProperties.
StatsAnswered == resp'.op = "GetStats" /\ <<resp, db>>' # <<resp, db>>

StatsFrame ==
  StatsAnswered =>
    /\ db' = db
    /\ resp'.status = 200
    /\ resp'.body.totalProperties = Len(db.properties)
    /\ resp'.body.occupancyRate =
         OccupancyRate(CountStatus(db.properties, "Occupied"),
                       Len(db.properties))
    /\ resp'.body.totalRevenue = OrZero(SqlSum(db.payments))
    /\ resp'.body.openMaintenance = CountStatus(db.maintenance, "Open")
    /\ CountStatus(db.properties, "Occupied") <= resp'.body.totalProperties

C14_StatsOneState == [][StatsFrame]_vars

\* GetStats has answered after a CreateProperty and a CreateMaintenance.
C14_Witness ==
  /\ resp.op = "GetStats"
  /\ resp.body.totalProperties = 4
  /\ resp.body.openMaintenance = 1
  /\ Len(db.properties) = 4
  /\ Len(db.maintenance) = 1

-----------------------------------------------------------------------------
\* C15: on every store, ListPayments answers 200 with exactly the payments
\* whose lease exists and whose lease's tenant and property both exist, each
\* once, in non-increasing payment_date order; a payment with a broken parent
\* chain is left out without an error.
ChainComplete(p) ==
  \E i \in 1..Len(db.leases) :
    /\ db.leases[i].id = p.lease_id
    /\ db.leases[i].tenant_id \in Ids(db.tenants)
    /\ db.leases[i].property_id \in Ids(db.properties)

TimesListed(rows, p) == Cardinality({k \in 1..Len(rows) : rows[k].payment = p})

C15_PaymentsJoin ==
  resp.op = "ListPayments" =>
    /\ resp.status = 200
    /\ \A i \in 1..Len(db.payments) :
         TimesListed(resp.body, db.payments[i]) =
           IF ChainComplete(db.payments[i]) THEN 1 ELSE 0
    /\ \A k \in 1..Len(resp.body) : resp.body[k].payment \in Range(db.payments)
    /\ \A k \in 1..Len(resp.body) - 1 :
         DateRank(resp.body[k].payment.payment_date) >=
           DateRank(resp.body[k + 1].payment.payment_date)

\* Of two payments ListPayments has returned one and left out the other,
\* whose lease does not exist.
C15_Witness ==
  /\ resp.op = "ListPayments"
  /\ Len(db.payments) = 2
  /\ Len(resp.body) = 1
  /\ \E i \in 1..2 : db.payments[i].lease_id \notin Ids(db.leases)

-----------------------------------------------------------------------------
\* C16: no route updates a maintenance row and CreateMaintenance stores
\* status "Open", so in every state the openMaintenance of GetStats equals
\* the number of maintenance rows, which is the number of answered
\* CreateMaintenance calls, and no ListMaintenance result has more rows.
C16_OpenCount ==
  LET open == GetStats(db).openMaintenance
      lists == ListMaintenance(db)
  IN  /\ \A i \in 1..Len(db.maintenance) : db.maintenance[i].status = "Open"
      /\ open = Len(db.maintenance)
      /\ open = Len(hist)
      /\ \A rows \in lists : Len(rows) <= open
      /\ resp.op = "GetStats" => resp.body.openMaintenance = open
      /\ resp.op = "ListMaintenance" => Len(resp.body) <= open

\* GetStats has answered with two open requests, of which ListMaintenance
\* returns only one: the other is on a property that does not exist.
C16_Witness ==
  /\ resp.op = "GetStats"
  /\ resp.body.openMaintenance = 2
  /\ Len(hist) = 2
  /\ \A rows \in ListMaintenance(db) : Len(rows) = 1

====
